---- MODULE Spec2Model ----
(***************************************************************************)
(* ChatMasterPlugin (src/main.py): last-seen watermarks per (group, user), *)
(* a daily digest scheduler with a catch-up window, and the persistence of *)
(* the store through a temp-file-and-rename write.                         *)
(*                                                                         *)
(* The plugin runs on one asyncio event loop: the code between two awaits  *)
(* is one step.  Writes handed to asyncio.to_thread run on worker threads  *)
(* and are steps of their own.  The wall clock is the variable now, in     *)
(* seconds; datetime.now() and time.time() both read it.                   *)
(***************************************************************************)
EXTENDS Integers, FiniteSets, Sequences, TLC

\* ------------------------------------------------------------ constants
SAVE_INTERVAL == 300
CLEANUP_INTERVAL == 86400
MAX_RETRIES == 3
CATCH_UP_WINDOW == 3
CLEANUP_DAYS == 90
\* "" as a date: no run recorded
NoDate == -1
\* self.last_processed_minute before the first evaluated tick
NoMinute == -1

\* ------------------------------------------------------------ bounds
\* the clock visits the days 1..MaxDay and one day more than CLEANUP_DAYS
\* after day 0
MaxDay == 2
\* calls of on_message in one run
MaxMsgs == 2
\* constructions of the plugin after the first one
MaxRestarts == 1

DaySeconds == 24 * 3600
FarDay == CLEANUP_DAYS + 1
\* the instants the clock visits: 08:59, 09:00, 12:00 (the end of the catch-up
\* window of 09:00) and 13:01 on day 1, 09:00 and 13:01 on the later days,
\* 09:00 on the far day
TimePoints ==
    {DaySeconds + m * 60 : m \in {539, 540, 720, 781}}
    \cup {d * DaySeconds + m * 60 : d \in 2..MaxDay, m \in {540, 781}}
    \cup {FarDay * DaySeconds + 540 * 60}
StartTime == DaySeconds + 539 * 60

Groups == {"g1", "g2", "g3"}
Users == {"u1", "u2"}

\* ------------------------------------------------------------ clock
\* now.strftime("%Y-%m-%d"): the calendar day of an instant
DateOf(t) == t \div DaySeconds
\* now.hour * 60 + now.minute
MinuteOfDay(t) == (t % DaySeconds) \div 60

\* ------------------------------------------------------------ store
\* a watermark that is no number: json.loads hands over whatever the file
\* holds (a string, null), and load_data keeps it
BadTs == -1
EmptyMap == [x \in {} |-> 0]
default_data == [global_last_run_date |-> NoDate, groups |-> EmptyMap]

Bucket(groups, g) == IF g \in DOMAIN groups THEN groups[g] ELSE EmptyMap

\* lines 213-216 with the first assignment wins instead of the last
recordSeenKeepFirst(groups, g, u, t) ==
    [h \in DOMAIN groups \cup {g} |->
        IF h = g
        THEN [v \in DOMAIN Bucket(groups, g) \cup {u} |->
                IF v \in DOMAIN Bucket(groups, g) THEN Bucket(groups, g)[v] ELSE t]
        ELSE groups[h]]

\* lines 213-216: create the bucket if absent, overwrite the entry
recordSeen(groups, g, u, t) ==
    [h \in DOMAIN groups \cup {g} |->
        IF h = g
        THEN [v \in DOMAIN Bucket(groups, g) \cup {u} |->
                IF v = u THEN t ELSE Bucket(groups, g)[v]]
        ELSE groups[h]]

\* lines 172-178 with <= for the < of line 175
Pruned_inclusive(groups, keys, cutoff) ==
    [g \in DOMAIN groups |->
        IF g \in keys
        THEN [u \in {v \in DOMAIN groups[g] : ~(groups[g][v] <= cutoff)} |-> groups[g][u]]
        ELSE groups[g]]

\* lines 172-178: in every group of keys drop the entries older than cutoff
Pruned(groups, keys, cutoff) ==
    [g \in DOMAIN groups |->
        IF g \in keys
        THEN [u \in {v \in DOMAIN groups[g] : ~(groups[g][v] < cutoff)} |-> groups[g][u]]
        ELSE groups[g]]

\* line 175: ts < cutoff_time raises on a watermark that is no number
sweep_raises(groups, keys) ==
    \E g \in keys \cap DOMAIN groups : \E u \in DOMAIN groups[g] : groups[g][u] = BadTs

\* the order of list(self.data["groups"].keys()), line 171: the order of the
\* file, which lists g1 before g2 wherever it holds a watermark that is no number
KeyOrder == <<"g1", "g2", "g3">>
KeyIndex(g) == CHOOSE i \in 1..Len(KeyOrder) : KeyOrder[i] = g

\* lines 172-178: the groups the loop has been through when line 175 raises
swept_before_error(groups, keys) ==
    {g \in keys \cap DOMAIN groups :
        \A h \in keys \cap DOMAIN groups :
            (\E u \in DOMAIN groups[h] : groups[h][u] = BadTs) => KeyIndex(g) < KeyIndex(h)}

removed_count(groups, keys, cutoff) ==
    Cardinality({p \in keys \X Users :
        /\ p[1] \in DOMAIN groups
        /\ p[2] \in DOMAIN groups[p[1]]
        /\ groups[p[1]][p[2]] < cutoff})

\* ------------------------------------------------------------ durable file
FailPoints == {"none", "mkstemp", "dump", "replace"}
MissingFile == [kind |-> "missing", data |-> default_data]
\* a file json.loads rejects
TornFile == [kind |-> "torn", data |-> default_data]
\* a file of no content, one whose top level is a list, and the object {}
EmptyFile == [kind |-> "empty", data |-> default_data]
ListFile == [kind |-> "notdict", data |-> default_data]
NoKeysFile == [kind |-> "nokeys", data |-> default_data]
OkFile(snapshot) == [kind |-> "ok", data |-> snapshot]

\* json.dump straight into data_file: a failed dump leaves a partial file
save_data_in_place(f, data_snapshot, fail) ==
    [file |-> IF fail = "mkstemp" THEN f
              ELSE IF fail = "dump" THEN TornFile
              ELSE OkFile(data_snapshot),
     failed |-> fail # "none",
     raised |-> FALSE]

\* lines 141-153.  fail names the step that raises; the temp file holds the
\* dump (partial when the dump raises) and reaches data_file by os.replace
\* only; every Exception is caught and logged
_save_data_atomic(f, data_snapshot, fail) ==
    LET temp == IF fail = "mkstemp" THEN MissingFile
                ELSE IF fail = "dump" THEN TornFile
                ELSE OkFile(data_snapshot)
    IN [file |-> IF fail = "none" THEN temp ELSE f,
        failed |-> fail # "none",
        raised |-> FALSE]

\* lines 120-139: a missing file, an empty one, one json.loads rejects and
\* one whose top level is no dict give default_data; a dict gets the keys it
\* lacks and is returned as it is otherwise
load_data(f) ==
    IF f.kind = "missing" THEN default_data
    ELSE IF f.kind = "empty" THEN default_data
    ELSE IF f.kind = "torn" THEN default_data
    ELSE IF f.kind = "notdict" THEN default_data
    ELSE IF f.kind = "nokeys"
         THEN [global_last_run_date |-> NoDate, groups |-> EmptyMap]
    ELSE f.data

\* ------------------------------------------------------------ configuration
\* lines 69-77.  "09|00" stands for 09:00 written with the full-width colon,
\* which line 71 replaces; a string strptime rejects falls back to 09:00
_parse_push_time(push_time) ==
    IF push_time \in {"09:00", "09|00"} THEN <<9, 0>>
    ELSE IF push_time = "21:30" THEN <<21, 30>>
    ELSE <<9, 0>>

\* line 335: float(...) raises on a value that is no number
float_ok(v) == v \in {"1.0", "1", "2"}
float_of(v) == IF v = "2" THEN 2 ELSE 1

\* lines 83-87, 112: the caches refresh_config_cache builds
monitored_groups_set == {"g1", "g2"}
exception_groups_set == {"g2"}
nickname_cache == {"u1"}

\* lines 114-118 without the exception groups
whitelist_mode_global_only(enable_whitelist_global, group_id) ==
    enable_whitelist_global

\* lines 114-118
_is_group_whitelist_mode(enable_whitelist_global, group_id) ==
    IF group_id \in exception_groups_set
    THEN ~enable_whitelist_global
    ELSE enable_whitelist_global

\* ------------------------------------------------------------ state
VARIABLES
    now,                    \* the wall clock, seconds
    phase,                  \* "running", "terminated" or "crashed"
    config,                 \* self.config, as the host supplies it
    data,                   \* self.data
    data_changed,           \* self.data_changed
    last_save_time,         \* self.last_save_time
    last_cleanup_time,      \* self.last_cleanup_time
    last_processed_minute,  \* self.last_processed_minute
    file,                   \* the content of data_file
    sched,                  \* scheduler_task: its position and locals
    cleanup,                \* cleanup_task: its position and locals
    reset_pc,               \* the handler of the reset command
    threads,                \* writes handed to asyncio.to_thread
    final_err,              \* what terminate's own write logged
    instance,               \* how many times the plugin was constructed again
    msgs,                   \* calls of on_message so far
    started,                \* per day: run_inspection(send_message=True) calls of this instance
    sentOn,                 \* <<day, instance>> of every send that succeeded
    resetUsed,              \* the reset command was used
    lastCheck,              \* what the last evaluated check_schedule met and did
    accepted                \* the events on_message recorded in this instance

vars == <<now, phase, config, data, data_changed, last_save_time,
          last_cleanup_time, last_processed_minute, file, sched, cleanup,
          reset_pc, threads, final_err, instance, msgs, started, sentOn,
          resetUsed, lastCheck, accepted>>

AllDays == {DateOf(t) : t \in TimePoints}

\* a durable file left by an earlier run: entries recorded on day 0
OldGroups == [g \in {"g1", "g2"} |-> [u \in (IF g = "g1" THEN Users ELSE {"u2"}) |-> 0]]
InitFiles == {MissingFile, OkFile([global_last_run_date |-> NoDate, groups |-> OldGroups])}

\* tried and delivered count, per group, the calls of context.send_message the
\* running inspection made and those that returned normally
IdleSched == [pc |-> "sleep", today |-> NoDate, now_ts |-> 0, todo |-> {},
              cur |-> "", attempt |-> 0, cutoff |-> 0, keys |-> {},
              tried |-> [g \in Groups |-> 0], delivered |-> [g \in Groups |-> 0],
              msg_list |-> {}]
NewCleanup == [pc |-> "new", cutoff |-> 0, keys |-> {}]
\* sweep: what became of the sweep of the tick; after_raise: the tick before
\* this one ended in an exception
NoCheck == [kind |-> "NONE", today |-> NoDate, first |-> FALSE, runs |-> 0,
            silent |-> 0, attempts |-> 0, result |-> "none", before |-> NoDate,
            after |-> NoDate, sweep |-> "none", after_raise |-> FALSE]

target_minutes == _parse_push_time(config.push_time)[1] * 60 + _parse_push_time(config.push_time)[2]

\* lines 25-67: __init__ on the durable file f
Constructed(f) ==
    /\ data' = load_data(f)
    /\ data_changed' = FALSE
    /\ last_save_time' = now
    /\ last_cleanup_time' = now
    /\ last_processed_minute' = NoMinute
    /\ sched' = IdleSched
    /\ cleanup' = NewCleanup
    /\ reset_pc' = "idle"
    /\ phase' = "running"
    /\ final_err' = "n/a"
    /\ started' = [d \in AllDays |-> 0]
    /\ lastCheck' = NoCheck
    /\ accepted' = EmptyMap

\* lines 25-67: the plugin constructed on one of files, with one of timeouts
\* as timeout_days
InitOn(files, timeouts) ==
    /\ now = StartTime
    /\ file \in files
    /\ config \in [enable_whitelist : BOOLEAN, timeout_days : timeouts,
                   push_time : {"09:00"}]
    /\ data = load_data(file)
    /\ data_changed = FALSE
    /\ last_save_time = now
    /\ last_cleanup_time = now
    /\ last_processed_minute = NoMinute
    /\ sched = IdleSched
    /\ cleanup = NewCleanup
    /\ reset_pc = "idle"
    /\ phase = "running"
    /\ final_err = "n/a"
    /\ threads = {}
    /\ instance = 0
    /\ msgs = 0
    /\ started = [d \in AllDays |-> 0]
    /\ sentOn = {}
    /\ resetUsed = FALSE
    /\ lastCheck = NoCheck
    /\ accepted = EmptyMap

Init == InitOn(InitFiles, {"1.0", "abc"})

\* time passes while the scheduler sleeps (line 290) and the startup sweep is
\* over, or while the plugin is stopped; the steps of one tick, and of the
\* startup sweep, happen within one instant of the model's clock
Advance(t) ==
    /\ t > now
    /\ phase # "running" \/ (sched.pc = "sleep" /\ cleanup.pc = "done")
    /\ now' = t
    /\ UNCHANGED <<phase, config, data, data_changed, last_save_time,
                   last_cleanup_time, last_processed_minute, file, sched, cleanup,
                   reset_pc, threads, final_err, instance, msgs, started, sentOn,
                   resetUsed, lastCheck, accepted>>

\* ------------------------------------------------------------ ingestion
\* an inbound group message: group_id "" is a message without a group,
\* sender "" a message whose sender is missing
Events ==
    [group_id : {"g1", "g2"}, sender : Users]
    \cup {[group_id |-> "", sender |-> "u1"],
          [group_id |-> "g2", sender |-> ""],
          [group_id |-> "g3", sender |-> "u1"]}

\* lines 197-217
on_message(ev) ==
    /\ phase = "running"
    /\ msgs < MaxMsgs
    /\ msgs' = msgs + 1
    /\ IF ev.group_id = "" \/ ev.sender = ""
       THEN UNCHANGED <<data, data_changed, accepted>>
       ELSE IF ev.group_id \notin monitored_groups_set
       THEN UNCHANGED <<data, data_changed, accepted>>
       ELSE IF /\ _is_group_whitelist_mode(config.enable_whitelist, ev.group_id)
               /\ ev.sender \notin nickname_cache
       THEN UNCHANGED <<data, data_changed, accepted>>
       ELSE /\ data' = [data EXCEPT !.groups = recordSeen(data.groups, ev.group_id, ev.sender, now)]
            /\ data_changed' = TRUE
            /\ accepted' = [p \in DOMAIN accepted \cup {<<ev.group_id, ev.sender>>} |->
                              IF p = <<ev.group_id, ev.sender>> THEN now ELSE accepted[p]]
    /\ UNCHANGED <<now, phase, config, last_save_time, last_cleanup_time,
                   last_processed_minute, file, sched, cleanup, reset_pc, threads,
                   final_err, instance, started, sentOn, resetUsed, lastCheck>>

\* ------------------------------------------------------------ flushing
\* the copies handed to worker threads are numbered in the order they are
\* taken, among those still known
NextSeq ==
    IF threads = {} THEN 1
    ELSE 1 + CHOOSE m \in {w.seq : w \in threads} : \A x \in threads : x.seq <= m

\* line 159-160: the deep copy of self.data handed to a worker thread.
\* overtaken: a copy taken later has been installed by another thread
Thread(owner, snapshot) ==
    [owner |-> owner, snap |-> snapshot, state |-> "running", failed |-> FALSE,
     raised |-> FALSE, seq |-> NextSeq, overtaken |-> FALSE]

\* the worker thread runs _save_data_atomic on its snapshot
thread_write(w, fail) ==
    /\ w \in threads
    /\ w.state = "running"
    /\ LET res == _save_data_atomic(file, w.snap, fail)
           others == {IF ~res.failed /\ x.state = "running" /\ x.seq < w.seq
                      THEN [x EXCEPT !.overtaken = TRUE] ELSE x : x \in threads \ {w}}
       IN /\ file' = res.file
          /\ threads' = IF w.owner = "orphan"
                        THEN others
                        ELSE others \cup
                             {[w EXCEPT !.state = "done", !.failed = res.failed, !.raised = res.raised]}
    /\ UNCHANGED <<now, phase, config, data, data_changed, last_save_time,
                   last_cleanup_time, last_processed_minute, sched, cleanup, reset_pc,
                   final_err, instance, msgs, started, sentOn, resetUsed, lastCheck,
                   accepted>>

\* lines 265-269 with the whole store replaced by default_data at line 267
reset_clears_store ==
    /\ phase = "running"
    /\ reset_pc = "idle"
    /\ data' = default_data
    /\ data_changed' = TRUE
    /\ threads' = threads \cup {Thread("reset", data')}
    /\ reset_pc' = "save_wait"
    /\ resetUsed' = TRUE
    /\ UNCHANGED <<now, phase, config, last_save_time, last_cleanup_time,
                   last_processed_minute, file, sched, cleanup, final_err, instance,
                   msgs, started, sentOn, lastCheck, accepted>>

\* lines 265-269, up to the await inside save_data.  Only SpecReset takes
\* this step and reset_save_resume; resetUsed stays FALSE in the others
reset_check_status ==
    /\ phase = "running"
    /\ reset_pc = "idle"
    /\ data' = [data EXCEPT !.global_last_run_date = NoDate]
    /\ data_changed' = TRUE
    /\ threads' = threads \cup {Thread("reset", data')}
    /\ reset_pc' = "save_wait"
    /\ resetUsed' = TRUE
    /\ UNCHANGED <<now, phase, config, last_save_time, last_cleanup_time,
                   last_processed_minute, file, sched, cleanup, final_err, instance,
                   msgs, started, sentOn, lastCheck, accepted>>

\* lines 161-164 in the reset handler: the write has returned
reset_save_resume ==
    /\ phase = "running"
    /\ reset_pc = "save_wait"
    /\ \E w \in threads :
        /\ w.owner = "reset"
        /\ w.state = "done"
        /\ threads' = threads \ {w}
        /\ IF w.raised
           THEN UNCHANGED <<data_changed, last_save_time>>
           ELSE data_changed' = FALSE /\ last_save_time' = now
    /\ reset_pc' = "idle"
    /\ UNCHANGED <<now, phase, config, data, last_cleanup_time,
                   last_processed_minute, file, sched, cleanup, final_err, instance,
                   msgs, started, sentOn, resetUsed, lastCheck, accepted>>

\* ------------------------------------------------------------ scheduler
\* the state of section 4.5 a check finds: what the claims call the tick's case
SpecState(current_minutes, target, last_run, today) ==
    IF last_run = today THEN "ALREADY_RAN"
    ELSE IF current_minutes < target THEN "NOT_DUE"
    ELSE IF current_minutes - target <= CATCH_UP_WINDOW * 60 THEN "DUE_FIRST"
    ELSE "DUE_LATE"

\* line 308
in_window(current_minutes, target) ==
    (current_minutes - target) <= (CATCH_UP_WINDOW * 60)

\* lines 307-312 firing one minute early
is_time_up_early(current_minutes, target) ==
    \/ current_minutes >= target - 1 /\ in_window(current_minutes, target)

\* lines 307-312
is_time_up(current_minutes, target) ==
    \/ current_minutes = target
    \/ current_minutes > target /\ in_window(current_minutes, target)

\* lines 324-326, up to the await inside save_data
MarkAndSave(today) ==
    /\ data' = [data EXCEPT !.global_last_run_date = today]
    /\ data_changed' = TRUE
    /\ threads' = threads \cup {Thread("sched", data')}
    /\ sched' = [IdleSched EXCEPT !.pc = "mark_save"]

\* lines 292-332 and run_inspection's lines 335-341: one evaluation of the
\* schedule, up to its first await
check_schedule ==
    /\ phase = "running"
    /\ sched.pc = "sleep"
    /\ LET today_date_str == DateOf(now)
           current_minutes == MinuteOfDay(now)
           last_run == data.global_last_run_date
           met == [NoCheck EXCEPT
                     !.kind = SpecState(current_minutes, target_minutes, last_run, today_date_str),
                     !.today = today_date_str,
                     !.first = (lastCheck.today # today_date_str),
                     !.before = last_run,
                     !.after_raise = (lastCheck.result = "raised" \/ lastCheck.sweep = "raised")]
       IN IF current_minutes = last_processed_minute
          THEN /\ sched' = [sched EXCEPT !.pc = "maintain"]
               /\ UNCHANGED <<last_processed_minute, data, data_changed, threads,
                              started, lastCheck>>
          ELSE /\ last_processed_minute' = current_minutes
               /\ IF is_time_up(current_minutes, target_minutes) /\ last_run # today_date_str
                  THEN IF in_window(current_minutes, target_minutes)
                       THEN /\ started' = [started EXCEPT ![today_date_str] = @ + 1]
                            /\ IF ~float_ok(config.timeout_days)
                               THEN \* line 335 raises; line 287 catches it
                                    /\ sched' = IdleSched
                                    /\ UNCHANGED <<data, data_changed, threads>>
                                    /\ lastCheck' = [met EXCEPT !.runs = 1, !.result = "raised",
                                                        !.after = data'.global_last_run_date]
                               ELSE IF monitored_groups_set = {}
                               THEN /\ MarkAndSave(today_date_str)
                                    /\ lastCheck' = [met EXCEPT !.runs = 1, !.result = "marked",
                                                        !.after = data'.global_last_run_date]
                               ELSE /\ sched' = [IdleSched EXCEPT !.pc = "inspect",
                                                    !.today = today_date_str,
                                                    !.now_ts = now,
                                                    !.todo = monitored_groups_set]
                                    /\ UNCHANGED <<data, data_changed, threads>>
                                    /\ lastCheck' = [met EXCEPT !.runs = 1, !.result = "pending",
                                                        !.after = data'.global_last_run_date]
                       ELSE /\ MarkAndSave(today_date_str)
                            /\ UNCHANGED started
                            /\ lastCheck' = [met EXCEPT !.result = "marked",
                                                !.after = data'.global_last_run_date]
                  ELSE IF current_minutes = target_minutes /\ last_run = today_date_str
                  THEN \* run_inspection(send_message=False): nothing is sent or written
                       /\ UNCHANGED <<data, data_changed, threads, started>>
                       /\ IF ~float_ok(config.timeout_days)
                          THEN /\ sched' = IdleSched
                               /\ lastCheck' = [met EXCEPT !.silent = 1, !.result = "raised",
                                                   !.after = data'.global_last_run_date]
                          ELSE /\ sched' = [sched EXCEPT !.pc = "maintain"]
                               /\ lastCheck' = [met EXCEPT !.silent = 1, !.result = "returned",
                                                   !.after = data'.global_last_run_date]
                  ELSE /\ sched' = [sched EXCEPT !.pc = "maintain"]
                       /\ UNCHANGED <<data, data_changed, threads, started>>
                       /\ lastCheck' = [met EXCEPT !.result = "returned",
                                           !.after = data'.global_last_run_date]
    /\ UNCHANGED <<now, phase, config, last_save_time, last_cleanup_time, file,
                   cleanup, reset_pc, final_err, instance, msgs, sentOn, resetUsed,
                   accepted>>

\* lines 335-336
timeout_seconds == float_of(config.timeout_days) * 24 * 3600

\* lines 362-383 with > for the >= of line 371
inactive_users_strict(group_id, now_ts) ==
    {u \in DOMAIN Bucket(data.groups, group_id) :
        /\ ~(/\ _is_group_whitelist_mode(config.enable_whitelist, group_id)
             /\ u \notin nickname_cache)
        /\ now_ts - Bucket(data.groups, group_id)[u] > timeout_seconds}

\* lines 362-383: the users of a group that go into msg_list
inactive_users(group_id, now_ts) ==
    {u \in DOMAIN Bucket(data.groups, group_id) :
        /\ ~(/\ _is_group_whitelist_mode(config.enable_whitelist, group_id)
             /\ u \notin nickname_cache)
        /\ now_ts - Bucket(data.groups, group_id)[u] >= timeout_seconds}

\* line 372: int(time_diff // 86400)
days_silent(time_diff) == time_diff \div 86400

\* lines 369-380: a line per inactive user, with the days it reports
msg_list(group_id, now_ts) ==
    {<<u, days_silent(now_ts - Bucket(data.groups, group_id)[u])>> :
        u \in inactive_users(group_id, now_ts)}

\* line 369: now_ts - last_seen_ts raises when the scan of lines 362-383 meets
\* a watermark that is no number, on a user line 365 does not skip
scan_raises(group_id) ==
    \E u \in DOMAIN Bucket(data.groups, group_id) :
        /\ ~(/\ _is_group_whitelist_mode(config.enable_whitelist, group_id)
             /\ u \notin nickname_cache)
        /\ Bucket(data.groups, group_id)[u] = BadTs

\* lines 343-393 without the try of lines 344 and 416: an error in one group
\* ends the loop over the groups
run_inspection_group_unguarded(group_id) ==
    /\ phase = "running"
    /\ sched.pc = "inspect"
    /\ sched.cur = ""
    /\ group_id \in sched.todo
    /\ IF scan_raises(group_id)
       THEN sched' = [sched EXCEPT !.todo = {}]
       ELSE IF inactive_users(group_id, sched.now_ts) # {}
       THEN sched' = [sched EXCEPT !.cur = group_id, !.attempt = 0,
                                   !.msg_list = msg_list(group_id, sched.now_ts)]
       ELSE sched' = [sched EXCEPT !.todo = @ \ {group_id}]
    /\ UNCHANGED <<now, phase, config, data, data_changed, last_save_time,
                   last_cleanup_time, last_processed_minute, file, cleanup, reset_pc,
                   threads, final_err, instance, msgs, started, sentOn, resetUsed,
                   lastCheck, accepted>>

\* lines 343-393: one group of the dispatching inspection, up to its send; an
\* error of the scan is caught at line 416 and the loop goes to the next group
run_inspection_group(group_id) ==
    /\ phase = "running"
    /\ sched.pc = "inspect"
    /\ sched.cur = ""
    /\ group_id \in sched.todo
    /\ IF scan_raises(group_id)
       THEN sched' = [sched EXCEPT !.todo = @ \ {group_id}]
       ELSE IF inactive_users(group_id, sched.now_ts) # {}
       THEN sched' = [sched EXCEPT !.cur = group_id, !.attempt = 0,
                                   !.msg_list = msg_list(group_id, sched.now_ts)]
       ELSE sched' = [sched EXCEPT !.todo = @ \ {group_id}]
    /\ UNCHANGED <<now, phase, config, data, data_changed, last_save_time,
                   last_cleanup_time, last_processed_minute, file, cleanup, reset_pc,
                   threads, final_err, instance, msgs, started, sentOn, resetUsed,
                   lastCheck, accepted>>

\* lines 396-408 without the break of line 402: the loop goes on after a send
\* that succeeded
send_message_no_break(ok) ==
    /\ phase = "running"
    /\ sched.pc = "inspect"
    /\ sched.cur # ""
    /\ lastCheck' = [lastCheck EXCEPT !.attempts = @ + 1]
    /\ sentOn' = IF ok THEN sentOn \cup {<<DateOf(now), instance>>} ELSE sentOn
    /\ LET counted == [sched EXCEPT !.tried[sched.cur] = @ + 1,
                                    !.delivered[sched.cur] = IF ok THEN @ + 1 ELSE @]
       IN IF sched.attempt = MAX_RETRIES - 1
          THEN sched' = [counted EXCEPT !.cur = "", !.attempt = 0, !.todo = @ \ {sched.cur},
                                       !.msg_list = {}]
          ELSE sched' = [counted EXCEPT !.attempt = @ + 1]
    /\ UNCHANGED <<now, phase, config, data, data_changed, last_save_time,
                   last_cleanup_time, last_processed_minute, file, cleanup, reset_pc,
                   threads, final_err, instance, msgs, started, resetUsed, accepted>>

\* lines 396-408: one attempt of context.send_message, which succeeds or raises
send_message(ok) ==
    /\ phase = "running"
    /\ sched.pc = "inspect"
    /\ sched.cur # ""
    /\ lastCheck' = [lastCheck EXCEPT !.attempts = @ + 1]
    /\ LET counted == [sched EXCEPT !.tried[sched.cur] = @ + 1,
                                    !.delivered[sched.cur] = IF ok THEN @ + 1 ELSE @]
       IN IF ok
          THEN /\ sentOn' = sentOn \cup {<<DateOf(now), instance>>}
               /\ sched' = [counted EXCEPT !.cur = "", !.attempt = 0, !.todo = @ \ {sched.cur},
                                       !.msg_list = {}]
          ELSE /\ UNCHANGED sentOn
               /\ IF sched.attempt = MAX_RETRIES - 1
                  THEN sched' = [counted EXCEPT !.cur = "", !.attempt = 0, !.todo = @ \ {sched.cur},
                                       !.msg_list = {}]
                  ELSE sched' = [counted EXCEPT !.attempt = @ + 1]
    /\ UNCHANGED <<now, phase, config, data, data_changed, last_save_time,
                   last_cleanup_time, last_processed_minute, file, cleanup, reset_pc,
                   threads, final_err, instance, msgs, started, resetUsed, accepted>>

\* run_inspection(send_message=True) returns to check_schedule: lines 324-326
inspection_returns ==
    /\ phase = "running"
    /\ sched.pc = "inspect"
    /\ sched.cur = ""
    /\ sched.todo = {}
    /\ MarkAndSave(sched.today)
    /\ lastCheck' = [lastCheck EXCEPT !.result = "marked",
                                      !.after = data'.global_last_run_date]
    /\ UNCHANGED <<now, phase, config, last_save_time, last_cleanup_time,
                   last_processed_minute, file, cleanup, reset_pc, final_err, instance,
                   msgs, started, sentOn, resetUsed, accepted>>

\* lines 161-164 in the scheduler: the write has returned
save_data_resume ==
    /\ phase = "running"
    /\ sched.pc \in {"mark_save", "loop_save"}
    /\ \E w \in threads :
        /\ w.owner = "sched"
        /\ w.state = "done"
        /\ threads' = threads \ {w}
        /\ IF w.raised
           THEN UNCHANGED <<data_changed, last_save_time>>
           ELSE data_changed' = FALSE /\ last_save_time' = now
    /\ sched' = [sched EXCEPT !.pc = IF sched.pc = "mark_save" THEN "maintain" ELSE "sleep"]
    /\ UNCHANGED <<now, phase, config, data, last_cleanup_time,
                   last_processed_minute, file, cleanup, reset_pc, final_err, instance,
                   msgs, started, sentOn, resetUsed, lastCheck, accepted>>

\* lines 282-283, up to the await inside save_data; then line 290
PeriodicSave(changed) ==
    IF changed /\ (now - last_save_time > SAVE_INTERVAL)
    THEN /\ threads' = threads \cup {Thread("sched", data')}
         /\ sched' = [IdleSched EXCEPT !.pc = "loop_save"]
    ELSE /\ threads' = threads
         /\ sched' = IdleSched

\* lines 278-283 with lines 167-173 of the sweep, up to the first await
scheduler_maintain ==
    /\ phase = "running"
    /\ sched.pc = "maintain"
    /\ IF now - last_cleanup_time > CLEANUP_INTERVAL
       THEN IF DOMAIN data.groups = {}
            THEN /\ last_cleanup_time' = now
                 /\ data' = data
                 /\ PeriodicSave(data_changed)
            ELSE /\ sched' = [IdleSched EXCEPT !.pc = "sweep",
                                 !.cutoff = now - (CLEANUP_DAYS * 24 * 3600),
                                 !.keys = DOMAIN data.groups]
                 /\ UNCHANGED <<last_cleanup_time, data, threads>>
       ELSE /\ UNCHANGED last_cleanup_time
            /\ data' = data
            /\ PeriodicSave(data_changed)
    /\ UNCHANGED <<now, phase, config, data_changed, last_save_time,
                   last_processed_minute, file, cleanup, reset_pc, final_err, instance,
                   msgs, started, sentOn, resetUsed, lastCheck, accepted>>

\* lines 174-181 and 280-283 with no except at line 287: an exception of the
\* sweep ends scheduler_loop
scheduler_sweep_uncaught ==
    /\ phase = "running"
    /\ sched.pc = "sweep"
    /\ IF sweep_raises(data.groups, sched.keys)
       THEN /\ data' = [data EXCEPT !.groups =
                          Pruned(data.groups, swept_before_error(data.groups, sched.keys), sched.cutoff)]
            /\ sched' = [IdleSched EXCEPT !.pc = "dead"]
            /\ lastCheck' = [lastCheck EXCEPT !.sweep = "raised"]
            /\ UNCHANGED <<data_changed, last_cleanup_time, threads>>
       ELSE /\ data' = [data EXCEPT !.groups = Pruned(data.groups, sched.keys, sched.cutoff)]
            /\ data_changed' = (data_changed \/ removed_count(data.groups, sched.keys, sched.cutoff) > 0)
            /\ last_cleanup_time' = now
            /\ PeriodicSave(data_changed')
            /\ UNCHANGED lastCheck
    /\ UNCHANGED <<now, phase, config, last_save_time, last_processed_minute, file,
                   cleanup, reset_pc, final_err, instance, msgs, started, sentOn,
                   resetUsed, accepted>>

\* lines 174-181, then lines 280-283.  When line 175 raises, the groups before
\* the error are pruned, lines 179-181 and 280-283 are skipped, line 287
\* catches the exception and the loop sleeps (line 290)
scheduler_sweep ==
    /\ phase = "running"
    /\ sched.pc = "sweep"
    /\ IF sweep_raises(data.groups, sched.keys)
       THEN /\ data' = [data EXCEPT !.groups =
                          Pruned(data.groups, swept_before_error(data.groups, sched.keys), sched.cutoff)]
            /\ sched' = IdleSched
            /\ lastCheck' = [lastCheck EXCEPT !.sweep = "raised"]
            /\ UNCHANGED <<data_changed, last_cleanup_time, threads>>
       ELSE /\ data' = [data EXCEPT !.groups = Pruned(data.groups, sched.keys, sched.cutoff)]
            /\ data_changed' = (data_changed \/ removed_count(data.groups, sched.keys, sched.cutoff) > 0)
            /\ last_cleanup_time' = now
            /\ PeriodicSave(data_changed')
            /\ UNCHANGED lastCheck
    /\ UNCHANGED <<now, phase, config, last_save_time, last_processed_minute, file,
                   cleanup, reset_pc, final_err, instance, msgs, started, sentOn,
                   resetUsed, accepted>>

\* ------------------------------------------------------------ startup sweep
\* lines 167-173 in cleanup_task
cleanup_start ==
    /\ phase = "running"
    /\ cleanup.pc = "new"
    /\ IF DOMAIN data.groups = {}
       THEN cleanup' = [cleanup EXCEPT !.pc = "done"]
       ELSE cleanup' = [pc |-> "yield",
                        cutoff |-> now - (CLEANUP_DAYS * 24 * 3600),
                        keys |-> DOMAIN data.groups]
    /\ UNCHANGED <<now, phase, config, data, data_changed, last_save_time,
                   last_cleanup_time, last_processed_minute, file, sched, reset_pc,
                   threads, final_err, instance, msgs, started, sentOn, resetUsed,
                   lastCheck, accepted>>

\* lines 174-181 in cleanup_task; when line 175 raises the task ends with the
\* groups before the error pruned
cleanup_run ==
    /\ phase = "running"
    /\ cleanup.pc = "yield"
    /\ IF sweep_raises(data.groups, cleanup.keys)
       THEN /\ data' = [data EXCEPT !.groups =
                          Pruned(data.groups, swept_before_error(data.groups, cleanup.keys), cleanup.cutoff)]
            /\ UNCHANGED data_changed
       ELSE /\ data' = [data EXCEPT !.groups = Pruned(data.groups, cleanup.keys, cleanup.cutoff)]
            /\ data_changed' = (data_changed \/ removed_count(data.groups, cleanup.keys, cleanup.cutoff) > 0)
    /\ cleanup' = [NewCleanup EXCEPT !.pc = "done"]
    /\ UNCHANGED <<now, phase, config, last_save_time, last_cleanup_time,
                   last_processed_minute, file, sched, reset_pc, threads, final_err,
                   instance, msgs, started, sentOn, resetUsed, lastCheck, accepted>>

\* ------------------------------------------------------------ lifecycle
Orphaned(ws) == {[w EXCEPT !.owner = "orphan"] : w \in {x \in ws : x.state = "running"}}

Stopped ==
    /\ sched' = [IdleSched EXCEPT !.pc = "cancelled"]
    /\ cleanup' = [NewCleanup EXCEPT !.pc = "done"]
    /\ reset_pc' = "idle"
    /\ lastCheck' = IF lastCheck.result = "pending"
                    THEN [lastCheck EXCEPT !.result = "cancelled"]
                    ELSE lastCheck

\* lines 183-190: both tasks are cancelled, then self.data is written on the
\* event loop (line 190 logs what that write raises); writes already on worker
\* threads go on
terminate(fail) ==
    /\ phase = "running"
    /\ LET res == _save_data_atomic(file, data, fail)
       IN /\ file' = res.file
          /\ final_err' = IF res.raised THEN "raised"
                          ELSE IF res.failed THEN "failed" ELSE "ok"
    /\ phase' = "terminated"
    /\ threads' = Orphaned(threads)
    /\ Stopped
    /\ UNCHANGED <<now, config, data, data_changed, last_save_time,
                   last_cleanup_time, last_processed_minute, instance, msgs, started,
                   sentOn, resetUsed, accepted>>

\* the process dies: its worker threads die with it
crash ==
    /\ phase = "running"
    /\ phase' = "crashed"
    /\ threads' = {}
    /\ Stopped
    /\ UNCHANGED <<now, config, data, data_changed, last_save_time,
                   last_cleanup_time, last_processed_minute, file, final_err, instance,
                   msgs, started, sentOn, resetUsed, accepted>>

\* the plugin is constructed again on the durable file
restart ==
    /\ phase # "running"
    /\ instance < MaxRestarts
    /\ instance' = instance + 1
    /\ Constructed(file)
    /\ UNCHANGED <<now, config, file, threads, msgs, sentOn, resetUsed>>

\* ------------------------------------------------------------ specifications
\* the scheduler through one process lifetime, on the store the durable file
\* held at start
Next ==
    \/ \E t \in TimePoints : Advance(t)
    \/ check_schedule
    \/ \E g \in Groups : run_inspection_group(g)
    \/ \E ok \in BOOLEAN : send_message(ok)
    \/ inspection_returns
    \/ \E w \in threads, fail \in FailPoints : thread_write(w, fail)
    \/ save_data_resume
    \/ scheduler_maintain
    \/ scheduler_sweep
    \/ cleanup_start
    \/ cleanup_run
    \/ \E fail \in FailPoints : terminate(fail)
    \/ crash

Spec == Init /\ [][Next]_vars

\* the instants of the two specifications below: 09:00 on day 1 and on a later day
StoreTimes == {DaySeconds + 540 * 60, FarDay * DaySeconds + 540 * 60}
RestartTimes == {DaySeconds + 540 * 60, 2 * DaySeconds + 540 * 60}

\* ingestion, flushes, sweeps and shutdown
NextStore ==
    \/ \E t \in StoreTimes : Advance(t)
    \/ \E ev \in Events : on_message(ev)
    \/ check_schedule
    \/ \E g \in Groups : run_inspection_group(g)
    \/ \E ok \in BOOLEAN : send_message(ok)
    \/ inspection_returns
    \/ \E w \in threads, fail \in FailPoints : thread_write(w, fail)
    \/ save_data_resume
    \/ scheduler_maintain
    \/ scheduler_sweep
    \/ cleanup_start
    \/ cleanup_run
    \/ \E fail \in FailPoints : terminate(fail)

InitStore == Init /\ float_ok(config.timeout_days)

SpecStore == InitStore /\ [][NextStore]_vars

\* stops and restarts of the process
NextRestart ==
    \/ \E t \in RestartTimes : Advance(t)
    \/ check_schedule
    \/ \E g \in Groups : run_inspection_group(g)
    \/ \E ok \in BOOLEAN : send_message(ok)
    \/ inspection_returns
    \/ \E w \in threads, fail \in FailPoints : thread_write(w, fail)
    \/ save_data_resume
    \/ scheduler_maintain
    \/ scheduler_sweep
    \/ cleanup_start
    \/ cleanup_run
    \/ \E fail \in FailPoints : terminate(fail)
    \/ crash
    \/ restart

SpecRestart == Init /\ [][NextRestart]_vars

\* the instant of the specification below: 09:00 of day 1
ResetTimes == {DaySeconds + 540 * 60}

\* the reset command, used once, beside ingestion and the scheduler, with
\* writes that succeed
NextReset ==
    \/ \E t \in ResetTimes : Advance(t)
    \/ \E ev \in Events : on_message(ev)
    \/ ~resetUsed /\ reset_check_status
    \/ reset_save_resume
    \/ check_schedule
    \/ \E g \in Groups : run_inspection_group(g)
    \/ \E ok \in BOOLEAN : send_message(ok)
    \/ inspection_returns
    \/ \E w \in threads : thread_write(w, "none")
    \/ save_data_resume
    \/ scheduler_maintain
    \/ cleanup_start
    \/ cleanup_run

SpecReset == InitStore /\ [][NextReset]_vars

\* a durable file with a watermark that is no number: g2 holds it for u2
BadGroups == [g \in {"g1", "g2"} |-> [u \in Users |-> IF g = "g2" /\ u = "u2" THEN BadTs ELSE 0]]
\* watermarks 86399 s, 86400 s and 86401 s before 09:00 of day 1
EdgeGroups ==
    [g \in {"g1", "g2"} |->
        IF g = "g1"
        THEN [u \in Users |-> DaySeconds + 540 * 60 - (IF u = "u1" THEN 86399 ELSE 86401)]
        ELSE [u \in {"u1"} |-> DaySeconds + 540 * 60 - 86400]]
ShapeFiles ==
    {MissingFile, EmptyFile, TornFile, ListFile, NoKeysFile,
     OkFile([global_last_run_date |-> NoDate, groups |-> BadGroups]),
     OkFile([global_last_run_date |-> NoDate, groups |-> EdgeGroups])}

\* the plugin on the files above, through stops and restarts
InitShape == InitOn(ShapeFiles, {"1.0", "2", "abc"})

SpecShape == InitShape /\ [][NextRestart]_vars

\* ticks in different minutes, and more than CLEANUP_INTERVAL after the
\* start: 09:00 of day 1, 09:00 and 09:01 of day 2
LoopTimes == {DaySeconds + 540 * 60, 2 * DaySeconds + 540 * 60, 2 * DaySeconds + 541 * 60}

\* the scheduler loop over several ticks, on the durable files of ShapeFiles,
\* until the plugin is terminated
NextLoop ==
    \/ \E t \in LoopTimes : Advance(t)
    \/ check_schedule
    \/ \E g \in Groups : run_inspection_group(g)
    \/ \E ok \in BOOLEAN : send_message(ok)
    \/ inspection_returns
    \/ \E w \in threads, fail \in FailPoints : thread_write(w, fail)
    \/ save_data_resume
    \/ scheduler_maintain
    \/ scheduler_sweep
    \/ cleanup_start
    \/ cleanup_run
    \/ \E fail \in FailPoints : terminate(fail)

SpecLoop == InitShape /\ [][NextLoop]_vars

\* ------------------------------------------------------------ claims
\* C1: within one process lifetime and without the reset command, at most one
\* dispatching inspection (run_inspection(send_message=True)) is started per
\* calendar day, whatever the ticks and the outcomes of the sends.
C1_AtMostOneDispatchPerDay ==
    ~resetUsed => \A d \in AllDays : started[d] <= 1

\* C2: the first evaluated tick of a day that comes more than CATCH_UP_WINDOW
\* after the target time, the marker not being today, dispatches nothing and
\* sets global_last_run_date to today.
C2_DueLateSetsMarker ==
    (lastCheck.kind = "DUE_LATE" /\ lastCheck.first /\ lastCheck.result # "pending")
        => /\ lastCheck.runs = 0
           /\ lastCheck.attempts = 0
           /\ lastCheck.after = lastCheck.today

\* C3: an evaluated tick inside [target, target + CATCH_UP_WINDOW] with the
\* marker not today runs exactly one dispatching inspection and ends with
\* global_last_run_date = today.
C3_DueFirstRunsOnceAndMarks ==
    (lastCheck.kind = "DUE_FIRST" /\ lastCheck.result \in {"marked", "raised", "returned"})
        => /\ lastCheck.runs = 1
           /\ lastCheck.silent = 0
           /\ lastCheck.after = lastCheck.today

\* C4: after a DUE_FIRST tick the marker is today however the inspection
\* ended, an abort with an error included, so that the rest of the day starts
\* no further dispatching inspection.
C4_MarkerSetWhateverOutcome ==
    (/\ lastCheck.kind = "DUE_FIRST"
     /\ lastCheck.result \in {"marked", "raised"}
     /\ phase = "running"
     /\ ~resetUsed)
        => data.global_last_run_date = lastCheck.today

\* C5: once a digest was sent on a day, no later process instance (after a
\* terminate or a crash and a restart on the durable file) sends one that day.
C5_NoDuplicateAcrossRestarts ==
    ~resetUsed => \A a \in sentOn, b \in sentOn : a[1] = b[1] => a[2] = b[2]

\* C6: the send interface is called only in an inspection started by a
\* DUE_FIRST tick; a NOT_DUE tick runs no inspection and leaves the marker; the
\* ALREADY_RAN self-diagnostic happens at the target minute, silently.
C6_SendsOnlyWhenDueFirst ==
    /\ lastCheck.attempts > 0 => lastCheck.kind = "DUE_FIRST" /\ lastCheck.runs = 1
    /\ lastCheck.runs > 0 => lastCheck.kind = "DUE_FIRST"
    /\ lastCheck.kind = "NOT_DUE" =>
          /\ lastCheck.runs = 0
          /\ lastCheck.silent = 0
          /\ lastCheck.after = lastCheck.before
    /\ lastCheck.kind = "ALREADY_RAN" =>
          /\ lastCheck.runs = 0
          /\ lastCheck.attempts = 0
          /\ lastCheck.after = lastCheck.before
    /\ lastCheck.silent > 0 =>
          /\ lastCheck.kind = "ALREADY_RAN"
          /\ last_processed_minute = target_minutes

\* C6 witness: the self-diagnostic ran at the target minute of a day whose
\* digest had been sent
C6_Witness ==
    /\ lastCheck.kind = "ALREADY_RAN"
    /\ lastCheck.silent = 1
    /\ lastCheck.result = "returned"
    /\ \E a \in sentOn : a[1] = lastCheck.today

\* C7: after terminate has returned, its own write did not fail and the
\* background writes in flight at that moment have finished, the durable file
\* equals the in-memory store as it was at terminate.
C7_FinalFlushWins ==
    (phase = "terminated" /\ final_err = "ok" /\ threads = {})
        => file = OkFile(data)

\* the snapshots a write may be installing in a step
WritableSnapshots == {w.snap : w \in threads} \cup {data}

\* C8: the durable file is never partial: a step leaves it as it was or
\* installs one complete snapshot handed to a write; a write that fails at
\* mkstemp, at the dump or at the rename leaves the file as it was and raises
\* nothing to its caller.
C8_AtomicDurableWrites ==
    [][/\ file'.kind # "torn"
       /\ file' # file => \E snapshot \in WritableSnapshots : file' = OkFile(snapshot)
       /\ \A fail \in FailPoints \ {"none"} :
            /\ \A w \in threads :
                 thread_write(w, fail) =>
                    /\ file' = file
                    /\ \A x \in threads' : ~x.raised
            /\ terminate(fail) => file' = file /\ final_err' = "failed"
      ]_vars

\* C8 witness: a background write failed and the file it would have replaced
\* is still the complete snapshot written before it
C8_Witness ==
    /\ file.kind = "ok"
    /\ \E w \in threads :
         /\ w.state = "done"
         /\ w.failed
         /\ file.data # w.snap

Present(p) ==
    /\ p[1] \in DOMAIN data.groups
    /\ p[2] \in DOMAIN data.groups[p[1]]

\* C9 as stated: the store holds an entry for every pair that was recorded,
\* with the timestamp of its most recent accepted event, whatever flushes and
\* sweeps interleave.
C9_EveryRecordedPairHeld ==
    \A p \in DOMAIN accepted :
        Present(p) /\ data.groups[p[1]][p[2]] = accepted[p]

\* C9 amended: a recorded pair has at most one entry; while it has one, the
\* value is the timestamp of its most recent accepted event; it has none only
\* when that event is more than CLEANUP_DAYS old, a sweep having removed it.
C9_MostRecentUnlessSwept ==
    \A p \in DOMAIN accepted :
        IF Present(p)
        THEN data.groups[p[1]][p[2]] = accepted[p]
        ELSE accepted[p] < now - CLEANUP_DAYS * 24 * 3600

\* C9 witness: one pair was recorded again while a flush of the store was in
\* flight, and holds the later timestamp
C9_Witness ==
    \E p \in DOMAIN accepted :
        /\ Present(p)
        /\ data.groups[p[1]][p[2]] = accepted[p]
        /\ \E w \in threads :
             /\ w.state = "running"
             /\ p[1] \in DOMAIN w.snap.groups
             /\ p[2] \in DOMAIN w.snap.groups[p[1]]
             /\ w.snap.groups[p[1]][p[2]] < accepted[p]
             /\ w.snap.groups[p[1]][p[2]] > 0

\* effectiveWhitelistMode of section 4.4: the global flag XOR membership in
\* the exception set
EffectiveWhitelistMode(group_id) ==
    config.enable_whitelist # (group_id \in exception_groups_set)

\* the events the claim says are recorded
InScope(ev) ==
    /\ ev.group_id # ""
    /\ ev.group_id \in monitored_groups_set
    /\ ~(EffectiveWhitelistMode(ev.group_id) /\ ev.sender \notin nickname_cache)

\* what a call of on_message on ev does, when it records (or not)
IngestionEffect(ev, records) ==
    /\ IF records
       THEN /\ ev.group_id \in DOMAIN data'.groups
            /\ ev.sender \in DOMAIN data'.groups[ev.group_id]
            /\ data'.groups[ev.group_id][ev.sender] = now
            /\ \A g \in DOMAIN data.groups : \A u \in DOMAIN data.groups[g] :
                 <<g, u>> # <<ev.group_id, ev.sender>> =>
                    /\ g \in DOMAIN data'.groups
                    /\ u \in DOMAIN data'.groups[g]
                    /\ data'.groups[g][u] = data.groups[g][u]
            /\ data'.global_last_run_date = data.global_last_run_date
            /\ data_changed'
       ELSE UNCHANGED <<data, data_changed>>
    /\ UNCHANGED <<file, threads>>

\* C10 as stated: on_message writes the store and sets the DirtyFlag if and
\* only if the event has a group id, the group is monitored, and it is not
\* the case that the group's effective whitelist mode is on while the sender
\* has no alias; it never writes the durable file.
C10_IngestionScoping ==
    [][\A ev \in Events : on_message(ev) => IngestionEffect(ev, InScope(ev))]_vars

\* C10 amended: ... if and only if the event has a group id and a sender, ...
C10_IngestionScopingWithSender ==
    [][\A ev \in Events :
          on_message(ev) => IngestionEffect(ev, InScope(ev) /\ ev.sender # "")]_vars

\* C10 witness: in whitelist mode a message of a sender without alias was
\* recorded in the exception group, and nothing was written to the file
C10_Witness ==
    /\ config.enable_whitelist
    /\ <<"g2", "u2">> \in DOMAIN accepted
    /\ Present(<<"g2", "u2">>)
    /\ data.groups["g2"]["u2"] = accepted[<<"g2", "u2">>]
    /\ data_changed
    /\ file = MissingFile
    /\ threads = {}

\* C11: in a dispatching inspection a group is sent to at most MAX_RETRIES
\* times, no attempt follows a send that succeeded, so at most one message is
\* delivered to a group and exactly one when an attempt succeeded; a group is
\* given up only after MAX_RETRIES failures; a send that failed, the last one
\* included, never ends the check with an error.
C11_DispatchRetry ==
    /\ \A g \in Groups :
          /\ sched.tried[g] <= MAX_RETRIES
          /\ sched.delivered[g] <= 1
          /\ sched.delivered[g] = 1 => g # sched.cur /\ g \notin sched.todo
          /\ (sched.tried[g] > 0 /\ sched.delivered[g] = 0 /\ g # sched.cur)
                => sched.tried[g] = MAX_RETRIES
    /\ lastCheck.attempts > 0 => lastCheck.result # "raised"
    /\ (sched.pc = "inspect" /\ phase = "running") => lastCheck.result = "pending"

\* C11 witness: the transport failed twice and then succeeded for a group
C11_Witness ==
    \E g \in Groups :
        /\ sched.pc = "inspect"
        /\ sched.tried[g] = MAX_RETRIES
        /\ sched.delivered[g] = 1
        /\ <<DateOf(now), instance>> \in sentOn

\* the users of a group the claims call in scope: those the group's effective
\* mode does not leave out
UserInScope(g, u) == ~(EffectiveWhitelistMode(g) /\ u \notin nickname_cache)

\* the in-scope users of g with a numeric watermark of age >= timeout_days days
InactiveInScope(g, now_ts) ==
    {u \in DOMAIN Bucket(data.groups, g) :
        /\ UserInScope(g, u)
        /\ data.groups[g][u] # BadTs
        /\ now_ts - data.groups[g][u] >= float_of(config.timeout_days) * 86400}

\* the scan of g itself fails: an in-scope user of g has a watermark that is
\* no number
OwnScanFails(g) ==
    \E u \in DOMAIN Bucket(data.groups, g) : UserInScope(g, u) /\ data.groups[g][u] = BadTs

WellShapedFile(f) ==
    /\ f.kind = "ok"
    /\ \A g \in DOMAIN f.data.groups : \A u \in DOMAIN f.data.groups[g] :
          f.data.groups[g][u] # BadTs

\* the plugin has just been constructed: no task has taken a step
JustConstructed ==
    /\ phase = "running"
    /\ cleanup.pc = "new"
    /\ sched = IdleSched
    /\ lastCheck = NoCheck
    /\ last_processed_minute = NoMinute

\* C15: load_data gives the empty defaults for every durable file that is
\* missing, empty, no valid JSON or of the wrong shape, so that the store a
\* freshly constructed plugin holds maps groups to users to numbers.
C15_LoadGivesDefaultsOnBadFile ==
    /\ ~WellShapedFile(file) => load_data(file) = default_data
    /\ JustConstructed =>
          \A g \in DOMAIN data.groups : \A u \in DOMAIN data.groups[g] :
              data.groups[g][u] # BadTs

\* the lines the claim expects for g: a line for every in-scope user of age
\* >= timeout_days * 86400, reporting floor(age / 86400) days
ExpectedLines(g, now_ts) ==
    {<<u, (now_ts - data.groups[g][u]) \div 86400>> : u \in InactiveInScope(g, now_ts)}

SweptAt(cutoff) ==
    /\ \A g \in DOMAIN data'.groups : \A u \in DOMAIN data'.groups[g] :
          ~(data'.groups[g][u] < cutoff)
    /\ \A g \in DOMAIN data.groups : \A u \in DOMAIN data.groups[g] :
          data.groups[g][u] >= cutoff =>
              /\ g \in DOMAIN data'.groups
              /\ u \in DOMAIN data'.groups[g]
              /\ data'.groups[g][u] = data.groups[g][u]
    /\ data'.groups # data.groups => data_changed'
    /\ data'.global_last_run_date = data.global_last_run_date

\* no watermark of the store makes line 175 raise: the sweep runs to its end
SweepCompletes ==
    \A g \in DOMAIN data.groups : \A u \in DOMAIN data.groups[g] :
        data.groups[g][u] # BadTs

\* C14: the step that completes a sweep, of the startup task or of the
\* scheduler, leaves no entry older than now - CLEANUP_DAYS * 86400 in any
\* group, keeps every other entry, those recorded at the sweep's yield point
\* included, and sets data_changed when it removed an entry.
C14_RetentionSweep ==
    [][((cleanup_run \/ scheduler_sweep) /\ SweepCompletes)
          => SweptAt(now - CLEANUP_DAYS * 86400)]_vars

\* C14 witness: the scheduler's sweep of the far day has removed g1's entry
\* of day 0 and kept the one recorded exactly CLEANUP_DAYS before
C14_Witness ==
    /\ DateOf(now) = FarDay
    /\ last_cleanup_time = now
    /\ data_changed
    /\ "g1" \in DOMAIN data.groups
    /\ DOMAIN data.groups["g1"] = {"u1"}
    /\ data.groups["g1"]["u1"] = now - CLEANUP_DAYS * 86400
    /\ file.kind = "ok"
    /\ "g1" \in DOMAIN file.data.groups
    /\ "u2" \in DOMAIN file.data.groups["g1"]

\* C17: when save_data resumes after a write that failed, data_changed stays
\* true and last_save_time is not advanced.
C17_DirtyFlagKeptOnFailedWrite ==
    [][(save_data_resume \/ reset_save_resume) =>
          \A w \in threads \ threads' :
              w.failed => data_changed' /\ last_save_time' = last_save_time]_vars

\* C16: the reset command sets global_last_run_date to "" and leaves every
\* watermark of every group as it was, in self.data and in the snapshot it
\* hands to the writer; it writes nothing else.
C16_ResetOnlyClearsMarker ==
    [][reset_check_status =>
          /\ data'.global_last_run_date = NoDate
          /\ data'.groups = data.groups
          /\ \E w \in threads' \ threads :
                /\ threads' = threads \cup {w}
                /\ w.owner = "reset"
                /\ w.snap.global_last_run_date = NoDate
                /\ w.snap.groups = data.groups
          /\ file' = file]_vars

\* C16 witness: the reset came after the day's digest was marked and flushed,
\* on a store with watermarks; its snapshot is in flight
C16_Witness ==
    /\ resetUsed
    /\ reset_pc = "save_wait"
    /\ data.global_last_run_date = NoDate
    /\ data.groups # EmptyMap
    /\ file.kind = "ok"
    /\ file.data.global_last_run_date = DateOf(now)
    /\ \E w \in threads :
          w.owner = "reset" /\ w.state = "running" /\ w.snap.groups = data.groups

\* C18: with writes that succeed, whenever data_changed is false and no save
\* is under way, the durable file holds the in-memory store.
C18_CleanMeansFlushed ==
    (phase = "running" /\ ~data_changed /\ threads = {})
        => load_data(file) = data

\* C20: snapshots are installed in the order they were taken: no writer
\* replaces the durable file by a snapshot older than one installed before.
C20_InstalledInOrderTaken ==
    [][\A w \in threads :
          (thread_write(w, "none") /\ file' # file) => ~w.overtaken]_vars

\* C19: a tick in which the schedule check or the sweep raises ends with the
\* scheduler at its sleep and the plugin running; from its sleep the loop can
\* always take its next tick; while the plugin runs the loop has not stopped.
C19_LoopSurvivesBadTick ==
    /\ [](phase = "running" => sched.pc \notin {"dead", "cancelled"})
    /\ []((phase = "running" /\ sched.pc = "sleep") => ENABLED check_schedule)
    /\ [][(\/ /\ check_schedule
              /\ MinuteOfDay(now) # last_processed_minute
              /\ lastCheck'.result = "raised"
           \/ scheduler_sweep /\ sweep_raises(data.groups, sched.keys))
             => (phase' = "running" /\ sched'.pc = "sleep")]_vars

\* C19 witness: a tick evaluated the schedule after an earlier tick had
\* raised, and the sweep of a later tick raised too; the loop is asleep again
C19_Witness ==
    /\ phase = "running"
    /\ lastCheck.after_raise
    /\ lastCheck.sweep = "raised"
    /\ sched.pc = "sleep"

====
